---- MODULE Spec2Model ----
(***************************************************************************)
(* A model of the command resolver (scripts/cc_lookup.py) and of the       *)
(* migration tool (scripts/migrate_claude_integrated.py).                  *)
(*                                                                         *)
(* Text is modelled as a sequence of one-character strings, so that        *)
(* splitting, joining, suffix tests and lengths are computed, not assumed. *)
(* A filesystem path is a sequence of components, each component a text.   *)
(***************************************************************************)
EXTENDS Integers, Sequences, FiniteSets, TLC

VARIABLES
    \* a function under test: its argument, its return value, its position
    fn_pc, fn_input, fn_output,
    \* the resolver's environment: command line, command directories, the
    \* outcome of reading the found file, the four settings files, the plugin
    \* manifest, the plugin cache on disk and the order iterdir() lists it in
    argv, cmd_dirs, file_read, settings, manifest, disk, iter_order,
    \* the resolver's own state: position, locals of find_command / main
    pc, cmd_candidates, result, enabled_plugins, installed_paths, plugin_idx,
    \* the migration tool: the markdown sources, the --scope of the runs, the
    \* files under the target commands directory, the count cleanup_phase
    \* reports, and the last two operations on the target directory
    sources, scope, target, count, repeated, last_op

fnVars == <<fn_pc, fn_input, fn_output>>

envVars == <<argv, cmd_dirs, file_read, settings, manifest, disk, iter_order>>

lookupVars == <<pc, cmd_candidates, result, enabled_plugins, installed_paths, plugin_idx>>

migrateVars == <<sources, scope, target, count, repeated, last_op>>

vars == <<fnVars, envVars, lookupVars, migrateVars>>

(***************************************************************************)
(* Text helpers (Python str operations used by the scripts).               *)
(***************************************************************************)

\* c in s
Contains(s, c) == \E i \in 1..Len(s) : s[i] = c

\* s.endswith(suffix)
EndsWith(s, suffix) ==
    /\ Len(s) >= Len(suffix)
    /\ SubSeq(s, Len(s) - Len(suffix) + 1, Len(s)) = suffix

\* s.startswith(prefix)
StartsWith(s, prefix) ==
    /\ Len(s) >= Len(prefix)
    /\ SubSeq(s, 1, Len(prefix)) = prefix

\* s.split(c): the parts of s between the occurrences of the character c
RECURSIVE Split(_, _)
Split(s, c) ==
    IF ~Contains(s, c) THEN <<s>>
    ELSE LET i == CHOOSE k \in 1..Len(s) :
                      /\ s[k] = c
                      /\ \A j \in 1..(k - 1) : s[j] # c
         IN <<SubSeq(s, 1, i - 1)>> \o Split(SubSeq(s, i + 1, Len(s)), c)

\* sep.join(parts)
RECURSIVE Join(_, _)
Join(parts, sep) ==
    IF Len(parts) = 0 THEN <<>>
    ELSE IF Len(parts) = 1 THEN parts[1]
    ELSE parts[1] \o sep \o Join(Tail(parts), sep)

\* the elements of a sequence
Range(seq) == {seq[i] : i \in 1..Len(seq)}

\* list(dict.fromkeys(seq)): drop every later occurrence of an element
RECURSIVE FromKeys(_)
FromKeys(seq) ==
    IF Len(seq) = 0 THEN <<>>
    ELSE LET front == FromKeys(SubSeq(seq, 1, Len(seq) - 1))
             last == seq[Len(seq)]
         IN IF last \in Range(front) THEN front ELSE Append(front, last)

\* s with every occurrence of the character a replaced by b
ReplaceChar(s, a, b) == [i \in 1..Len(s) |-> IF s[i] = a THEN b ELSE s[i]]

\* the position of the first occurrence of x in seq
FirstIndex(seq, x) == CHOOSE i \in 1..Len(seq) :
                          /\ seq[i] = x
                          /\ \A j \in 1..(i - 1) : seq[j] # x

\* the command-file extension
MD == <<".", "m", "d">>

(***************************************************************************)
(* normalize_command_name                                                  *)
(***************************************************************************)

\* the candidate list before de-duplication
RawCandidates(cmd_name) ==
    (IF Contains(cmd_name, ":")
        THEN <<Join(Split(cmd_name, ":"), <<"/">>) \o MD>> ELSE <<>>)
    \o (IF Contains(cmd_name, "/") THEN <<cmd_name \o MD>> ELSE <<>>)
    \o <<cmd_name \o MD>>
    \o (IF EndsWith(cmd_name, MD) THEN <<cmd_name>> ELSE <<>>)

\* a normalizer that forgets the final de-duplication
normalize_keeping_duplicates(cmd_name) == RawCandidates(cmd_name)

normalize_command_name(cmd_name) == FromKeys(RawCandidates(cmd_name))

(***************************************************************************)
(* extract_skill_references                                                *)
(***************************************************************************)

UpperLetters == <<"A", "B", "C", "D", "E", "F", "G", "H", "I", "J", "K", "L", "M",
                  "N", "O", "P", "Q", "R", "S", "T", "U", "V", "W", "X", "Y", "Z">>

LowerLetters == <<"a", "b", "c", "d", "e", "f", "g", "h", "i", "j", "k", "l", "m",
                  "n", "o", "p", "q", "r", "s", "t", "u", "v", "w", "x", "y", "z">>

Digits == {"0", "1", "2", "3", "4", "5", "6", "7", "8", "9"}

\* str.lower() on one character
LowerChar(c) ==
    IF \E i \in 1..Len(UpperLetters) : UpperLetters[i] = c
        THEN LowerLetters[CHOOSE i \in 1..Len(UpperLetters) : UpperLetters[i] = c]
        ELSE c

\* content.lower()
Lower(s) == [i \in 1..Len(s) |-> LowerChar(s[i])]

\* the regular expression's classes: [a-z] and [\w\-:]
FirstTokenChars == Range(LowerLetters)

TokenChars == Range(LowerLetters) \cup Range(UpperLetters) \cup Digits \cup {"_", "-", ":"}

\* re.findall(r'/([a-z][\w\-:]+)', s) from position i on: leftmost matches,
\* each extended greedily, the scan resuming after the match
RECURSIVE FindAllFrom(_, _)
FindAllFrom(s, i) ==
    IF i > Len(s) THEN <<>>
    ELSE IF /\ s[i] = "/"
            /\ i + 2 <= Len(s)
            /\ s[i + 1] \in FirstTokenChars
            /\ s[i + 2] \in TokenChars
         THEN LET last == CHOOSE k \in (i + 2)..Len(s) :
                              /\ \A m \in (i + 2)..k : s[m] \in TokenChars
                              /\ (k = Len(s) \/ s[k + 1] \notin TokenChars)
              IN <<SubSeq(s, i + 1, last)>> \o FindAllFrom(s, last + 1)
         ELSE FindAllFrom(s, i + 1)

FindAll(s) == FindAllFrom(s, 1)

\* a text literal
T_dev == <<"d", "e", "v">>
T_null == <<"n", "u", "l", "l">>

false_positives ==
    { T_dev, T_null, <<"t", "m", "p">>, <<"b", "i", "n">>, <<"u", "s", "r">>,
      <<"e", "t", "c">>, <<"v", "a", "r">>, <<"h", "o", "m", "e">> }

\* the filter as Python parses it: `and` binds tighter than `or`
skill_filter(m) == (m \notin false_positives /\ Contains(m, ":")) \/ Len(m) > 3

\* list(set(skills)): the kept matches, as a set
extract_skill_references(content) ==
    LET matches == FindAll(Lower(content))
    IN {matches[i] : i \in {k \in 1..Len(matches) : skill_filter(matches[k])}}

(***************************************************************************)
(* Paths and the filesystem the resolver reads.                            *)
(***************************************************************************)

CWD == <<"c", "w", "d">>
HOME == <<"h", "o", "m", "e">>
CLAUDE == <<".", "c", "l", "a", "u", "d", "e">>
COMMANDS == <<"c", "o", "m", "m", "a", "n", "d", "s">>

\* Path("./.claude/commands").absolute() and home / ".claude/commands"
project_cmd_dir == <<CWD, CLAUDE, COMMANDS>>
user_cmd_dir == <<HOME, CLAUDE, COMMANDS>>

\* path.parent and path.name
Parent(path) == SubSeq(path, 1, Len(path) - 1)
Name(path) == path[Len(path)]

\* base / relative: the components of the relative text, split at "/"
JoinPath(base, rel) ==
    base \o SelectSeq(Split(rel, "/"), LAMBDA part : Len(part) > 0)

\* what read_file / load_json / find_alternative_plugin_version return as None
None == [none |-> TRUE]

\* json {}: an object without keys
EmptyDict == [empty |-> TRUE]

\* dict.get(key, default) on a top-level json object
Get(data, key, default) == IF key \in DOMAIN data THEN data[key] ELSE default

\* a node that is not on disk
Absent == [kind |-> "absent", mtime |-> 0]

\* path.exists() and path.is_dir() for a path of the plugin cache
Exists(path) == path \in DOMAIN disk /\ disk[path].kind # "absent"
IsDir(path) == path \in DOMAIN disk /\ disk[path].kind = "dir"

\* an exception that propagates out of a call
Raised == [raised |-> TRUE]

\* load_json(path) without its try/except: a file that cannot be parsed
\* makes json.load raise
load_json_uncaught(file) ==
    IF file.state = "ok" THEN file.data
    ELSE IF file.state = "missing" THEN EmptyDict
    ELSE Raised

\* load_json(path): the parsed object, {} when the file is missing or
\* cannot be parsed
load_json(file) == IF file.state = "ok" THEN file.data ELSE EmptyDict

\* the inner loop of get_enabled_plugins: the ids a settings file enables,
\* appended once, in the file's order
RECURSIVE AddEnabled(_, _)
AddEnabled(enabled, items) ==
    IF Len(items) = 0 THEN enabled
    ELSE LET p_id == items[1][1]
             on == items[1][2]
         IN AddEnabled(IF on /\ p_id \notin Range(enabled)
                          THEN Append(enabled, p_id) ELSE enabled,
                       Tail(items))

\* the outer loop of get_enabled_plugins over settings_paths[k..]
RECURSIVE EnabledFrom(_, _)
EnabledFrom(enabled, k) ==
    IF k > Len(settings) THEN [value |-> enabled]
    ELSE LET data == load_json(settings[k])
         IN IF data = Raised THEN Raised
            ELSE EnabledFrom(
                     AddEnabled(enabled, Get(data, "enabledPlugins", <<>>)), k + 1)

\* get_enabled_plugins(home): the list returned, or the exception
get_enabled_plugins == EnabledFrom(<<>>, 1)

\* parent.iterdir(): the entries of the directory that exist, in the order
\* the operating system lists them
Iterdir(parent) ==
    LET all == [i \in 1..Len(iter_order) |-> Append(parent, iter_order[i])]
    IN SelectSeq(all, Exists)

\* list.sort(key=st_mtime, reverse=True): a stable sort, newest first
RECURSIVE InsertByMtime(_, _)
InsertByMtime(x, sorted) ==
    IF Len(sorted) = 0 THEN <<x>>
    ELSE IF disk[sorted[1]].mtime <= disk[x].mtime THEN <<x>> \o sorted
    ELSE <<sorted[1]>> \o InsertByMtime(x, Tail(sorted))

RECURSIVE SortByMtimeDesc(_)
SortByMtimeDesc(versions) ==
    IF Len(versions) <= 1 THEN versions
    ELSE InsertByMtime(versions[1], SortByMtimeDesc(Tail(versions)))

\* a fallback that takes the first listed version directory, unsorted
find_first_listed_version(install_path) ==
    LET parent == Parent(install_path)
        versions == SelectSeq(Iterdir(parent),
                        LAMBDA item : IsDir(item) /\ ~StartsWith(Name(item), <<".">>))
    IN IF ~Exists(parent) THEN None
       ELSE IF Len(versions) = 0 THEN None
       ELSE [path |-> versions[1]]

\* find_alternative_plugin_version(install_path): None, or the path found
find_alternative_plugin_version(install_path) ==
    LET parent == Parent(install_path)
        versions == SelectSeq(Iterdir(parent),
                        LAMBDA item : IsDir(item) /\ ~StartsWith(Name(item), <<".">>))
    IN IF ~Exists(parent) THEN None
       ELSE IF Len(versions) = 0 THEN None
       ELSE [path |-> SortByMtimeDesc(versions)[1]]

\* the body of get_installed_plugin_paths' loop for one manifest entry:
\* None, or the path the plugin id is mapped to
ResolveInstallation(installations) ==
    IF ~(installations.islist /\ Len(installations.items) > 0) THEN None
    ELSE LET install_info == installations.items[1]
         IN IF ~(install_info.isdict /\ install_info.haspath) THEN None
            ELSE IF Exists(install_info.installPath)
                     THEN [path |-> install_info.installPath]
                     ELSE find_alternative_plugin_version(install_info.installPath)

\* get_installed_plugin_paths: the plugin ids of the manifest that resolve,
\* each with its path (a dict, as a sequence of <<id, path>> pairs)
RECURSIVE InstalledFrom(_)
InstalledFrom(items) ==
    IF Len(items) = 0 THEN <<>>
    ELSE LET plugin_id == items[1][1]
             resolved == ResolveInstallation(items[1][2])
         IN (IF resolved = None THEN <<>> ELSE << <<plugin_id, resolved.path>> >>)
            \o InstalledFrom(Tail(items))

\* get_installed_plugin_paths(home): the dict returned, or the exception
get_installed_plugin_paths ==
    LET data == load_json(manifest)
    IN IF data = Raised THEN Raised
       ELSE [value |-> InstalledFrom(Get(data, "plugins", <<>>))]

\* key in dict, dict[key] for a dict kept as <<key, value>> pairs
HasKey(dict, key) == \E i \in 1..Len(dict) : dict[i][1] = key
Lookup(dict, key) == dict[CHOOSE i \in 1..Len(dict) : dict[i][1] = key][2]


(***************************************************************************)
(* Directory prober and enumerator.                                        *)
(***************************************************************************)

\* the kind of the entry at base/relative: "none", "dir" or "file"
EntryKind(base, rel) ==
    IF /\ base \in DOMAIN cmd_dirs
       /\ cmd_dirs[base].exists
       /\ rel \in DOMAIN cmd_dirs[base].entries
    THEN cmd_dirs[base].entries[rel]
    ELSE "none"

\* cmd_path.exists() and cmd_path.is_file()
IsRegularFile(base, candidate) == EntryKind(base, JoinPath(<<>>, candidate)) = "file"

\* a prober that accepts whatever exists at the candidate path
find_command_ignoring_kind(base_path, cmd_candidates_) ==
    LET hits == SelectSeq(cmd_candidates_,
                    LAMBDA c : EntryKind(base_path, JoinPath(<<>>, c)) # "none")
    IN IF Len(hits) = 0 THEN None ELSE [path |-> JoinPath(base_path, hits[1])]

\* find_command_in_directory(base_path, cmd_candidates): None, or the path
\* of the first candidate that is a regular file
find_command_in_directory(base_path, cmd_candidates_) ==
    LET hits == SelectSeq(cmd_candidates_, LAMBDA c : IsRegularFile(base_path, c))
    IN IF Len(hits) = 0 THEN None ELSE [path |-> JoinPath(base_path, hits[1])]

\* the relative paths a command directory may hold, in the order rglob
\* walks them
RelPaths ==
    << << <<"a">>, <<"b">> \o MD >>,
       << <<"a", ":", "b">> \o MD >> >>

\* base_path.rglob("*.md"): every entry below base_path whose name ends in
\* ".md", as paths relative to base_path
Rglob(base_path) ==
    SelectSeq(RelPaths,
        LAMBDA rel : EntryKind(base_path, rel) # "none" /\ EndsWith(Name(rel), MD))

\* the command name list_available_commands derives from one relative path
CommandName(rel, prefix) ==
    LET text == Join(rel, <<"/">>)
        cmd_name == SubSeq(text, 1, Len(text) - 3)
        prefixed == IF Len(prefix) > 0 THEN prefix \o <<":">> \o cmd_name ELSE cmd_name
    IN Join(Split(prefixed, "/"), <<":">>)

\* list_available_commands(base_path, prefix)
list_available_commands(base_path, prefix) ==
    IF ~(base_path \in DOMAIN cmd_dirs /\ cmd_dirs[base_path].exists) THEN <<>>
    ELSE LET items == Rglob(base_path)
         IN [i \in 1..Len(items) |-> CommandName(items[i], prefix)]

(***************************************************************************)
(* Result assembly.                                                        *)
(***************************************************************************)

T_project == <<"p", "r", "o", "j", "e", "c", "t">>
T_user == <<"u", "s", "e", "r">>
T_plugin_colon == <<"p", "l", "u", "g", "i", "n", ":">>

\* f"plugin:{plugin_id}"
PluginSource(plugin_id) == T_plugin_colon \o plugin_id

\* the entries collect_available_commands appends for one listing
Tagged(cmds, source) == [i \in 1..Len(cmds) |-> [name |-> cmds[i], source |-> source]]

\* the plugin loop of collect_available_commands over enabled[k..]
RECURSIVE PluginCommandsFrom(_, _, _)
PluginCommandsFrom(enabled, installed, k) ==
    IF k > Len(enabled) THEN <<>>
    ELSE LET plugin_id == enabled[k]
         IN (IF HasKey(installed, plugin_id)
                THEN Tagged(list_available_commands(
                                Append(Lookup(installed, plugin_id), COMMANDS),
                                Split(plugin_id, "@")[1]),
                            PluginSource(plugin_id))
                ELSE <<>>)
            \o PluginCommandsFrom(enabled, installed, k + 1)

\* a collector that lists every installed plugin, enabled or not
collect_from_all_installed(enabled, installed) ==
    Tagged(list_available_commands(project_cmd_dir, <<>>), T_project)
    \o Tagged(list_available_commands(user_cmd_dir, <<>>), T_user)
    \o PluginCommandsFrom([i \in 1..Len(installed) |-> installed[i][1]], installed, 1)

\* collect_available_commands(home, enabled_plugins, installed_paths)
collect_available_commands(enabled, installed) ==
    Tagged(list_available_commands(project_cmd_dir, <<>>), T_project)
    \o Tagged(list_available_commands(user_cmd_dir, <<>>), T_user)
    \o PluginCommandsFrom(enabled, installed, 1)

\* read_file(path) without its try/except: a failing read raises
read_file_uncaught(path) == IF file_read.ok THEN [text |-> file_read.text] ELSE Raised

\* read_file(path): None on error, else the text read (possibly empty)
read_file(path) == IF file_read.ok THEN [text |-> file_read.text] ELSE None

\* parse_command_content(content) for a content that does not start with
\* "---": no frontmatter, the body is the content
parse_command_content(content) ==
    [frontmatter |-> EmptyDict, body |-> content, description |-> <<>>,
     allowed_tools |-> <<>>, argument_hint |-> <<>>]

\* build_result(found_path, source, base_result, home)
build_result(found_path, source, base_result) ==
    LET content == read_file(found_path)
    IN IF content = Raised THEN Raised
       ELSE IF content = None \/ Len(content.text) = 0
       THEN [k \in DOMAIN base_result \cup {"error"} |->
                IF k = "error"
                    THEN <<"Found command at", found_path, "but failed to read content">>
                    ELSE base_result[k]]
       ELSE [found |-> TRUE,
             path |-> found_path,
             source |-> source,
             content |-> content.text,
             parsed |-> parse_command_content(content.text),
             referenced_scripts |-> EmptyDict,
             referenced_skills |-> extract_skill_references(content.text),
             locations_searched |-> base_result.locations_searched]


(***************************************************************************)
(* The resolver as a state machine: main() and the steps of find_command.  *)
(***************************************************************************)

LIST_FLAG == <<"-", "-", "l", "i", "s", "t">>

\* len(sys.argv) < 2, or the argument is --list
IsListMode == IF Len(argv) = 0 THEN TRUE ELSE argv[1] = LIST_FLAG

\* main() without a command name, or with --list: the list mode
ListCommands ==
    /\ pc = "start"
    /\ IsListMode
    /\ LET enabled == get_enabled_plugins
           installed == get_installed_plugin_paths
       IN IF enabled = Raised \/ installed = Raised
          THEN /\ pc' = "raised"
               /\ UNCHANGED <<result, enabled_plugins, installed_paths>>
          ELSE /\ enabled_plugins' = enabled.value
               /\ installed_paths' = installed.value
               /\ result' = [mode |-> <<"l", "i", "s", "t">>,
                             available_commands |->
                                 collect_available_commands(enabled.value, installed.value)]
               /\ pc' = "done"
    /\ UNCHANGED <<cmd_candidates, plugin_idx>>
    /\ UNCHANGED <<envVars, fnVars, migrateVars>>

\* find_command, lines 287-302: normalize the name, probe the project
\* directory
SearchProject ==
    /\ pc = "start"
    /\ ~IsListMode
    /\ LET cmd_name == argv[1]
           candidates == normalize_command_name(cmd_name)
           base == [found |-> FALSE,
                    search_query |-> cmd_name,
                    candidates_checked |-> candidates,
                    locations_searched |-> <<project_cmd_dir>>]
           found_path == find_command_in_directory(project_cmd_dir, candidates)
       IN /\ cmd_candidates' = candidates
          /\ IF found_path # None
             THEN LET r == build_result(found_path.path, T_project, base)
                  IN /\ result' = r
                     /\ pc' = IF r = Raised THEN "raised" ELSE "done"
             ELSE /\ result' = base
                  /\ pc' = "user"
    /\ UNCHANGED <<enabled_plugins, installed_paths, plugin_idx>>
    /\ UNCHANGED <<envVars, fnVars, migrateVars>>

\* find_command, lines 304-309: probe the user directory
SearchUser ==
    /\ pc = "user"
    /\ LET base == [result EXCEPT !.locations_searched = Append(@, user_cmd_dir)]
           found_path == find_command_in_directory(user_cmd_dir, cmd_candidates)
       IN IF found_path # None
          THEN LET r == build_result(found_path.path, T_user, base)
               IN /\ result' = r
                  /\ pc' = IF r = Raised THEN "raised" ELSE "done"
          ELSE /\ result' = base
               /\ pc' = "plugins"
    /\ UNCHANGED <<cmd_candidates, enabled_plugins, installed_paths, plugin_idx>>
    /\ UNCHANGED <<envVars, fnVars, migrateVars>>

\* find_command, lines 311-313: read the settings and the manifest
LoadPlugins ==
    /\ pc = "plugins"
    /\ LET enabled == get_enabled_plugins
           installed == get_installed_plugin_paths
       IN IF enabled = Raised \/ installed = Raised
          THEN /\ pc' = "raised"
               /\ UNCHANGED <<enabled_plugins, installed_paths, plugin_idx>>
          ELSE /\ enabled_plugins' = enabled.value
               /\ installed_paths' = installed.value
               /\ plugin_idx' = 1
               /\ pc' = "plugin_loop"
    /\ UNCHANGED <<cmd_candidates, result>>
    /\ UNCHANGED <<envVars, fnVars, migrateVars>>

\* find_command, lines 315-323: one iteration of the loop over the enabled
\* plugins
SearchPlugin ==
    /\ pc = "plugin_loop"
    /\ plugin_idx <= Len(enabled_plugins)
    /\ LET plugin_id == enabled_plugins[plugin_idx]
       IN IF HasKey(installed_paths, plugin_id)
          THEN LET plugin_cmd_dir == Append(Lookup(installed_paths, plugin_id), COMMANDS)
                   base == [result EXCEPT !.locations_searched = Append(@, plugin_cmd_dir)]
                   found_path == find_command_in_directory(plugin_cmd_dir, cmd_candidates)
               IN IF found_path # None
                  THEN LET r == build_result(found_path.path, PluginSource(plugin_id), base)
                       IN /\ result' = r
                          /\ pc' = IF r = Raised THEN "raised" ELSE "done"
                          /\ UNCHANGED plugin_idx
                  ELSE /\ result' = base
                       /\ plugin_idx' = plugin_idx + 1
                       /\ UNCHANGED pc
          ELSE /\ plugin_idx' = plugin_idx + 1
               /\ UNCHANGED <<result, pc>>
    /\ UNCHANGED <<cmd_candidates, enabled_plugins, installed_paths>>
    /\ UNCHANGED <<envVars, fnVars, migrateVars>>

\* find_command, lines 325-328: nothing matched, collect the suggestions
NotFound ==
    /\ pc = "plugin_loop"
    /\ plugin_idx > Len(enabled_plugins)
    /\ result' = [k \in DOMAIN result \cup {"available_commands"} |->
                     IF k = "available_commands"
                         THEN collect_available_commands(enabled_plugins, installed_paths)
                         ELSE result[k]]
    /\ pc' = "done"
    /\ UNCHANGED <<cmd_candidates, enabled_plugins, installed_paths, plugin_idx>>
    /\ UNCHANGED <<envVars, fnVars, migrateVars>>

NextLookup ==
    \/ ListCommands
    \/ SearchProject
    \/ SearchUser
    \/ LoadPlugins
    \/ SearchPlugin
    \/ NotFound


(***************************************************************************)
(* The environments the resolver is run in.                                *)
(***************************************************************************)

\* command names asked for: "a:b" (candidates a/b.md, a:b.md) and "a/b"
\* (candidate a/b.md only)
Argvs == {<<>>, <<LIST_FLAG>>, <<<<"a", ":", "b">>>>, <<<<"a", "/", "b">>>>}

\* a command directory: absent, or present with each relative path absent,
\* a directory or a regular file
DirAbsent == [exists |-> FALSE, entries |-> [r \in Range(RelPaths) |-> "none"]]

DirWith(kinds) ==
    {[exists |-> TRUE, entries |-> e] : e \in [Range(RelPaths) -> kinds]}

AllDirs == {DirAbsent} \cup DirWith({"none", "dir", "file"})

\* a command directory holding a/b.md, and one holding only a:b.md
DirSlashFile ==
    [exists |-> TRUE,
     entries |-> [r \in Range(RelPaths) |-> IF r = RelPaths[1] THEN "file" ELSE "none"]]
DirColonFile ==
    [exists |-> TRUE,
     entries |-> [r \in Range(RelPaths) |-> IF r = RelPaths[2] THEN "file" ELSE "none"]]

FewDirs == {DirAbsent, DirSlashFile}

\* the outcome of reading the found file: an error, an empty text, a text
ReadFails == [ok |-> FALSE, text |-> <<>>]
ReadEmpty == [ok |-> TRUE, text |-> <<>>]
ReadText == [ok |-> TRUE, text |-> <<"x">>]

AllReads == {ReadFails, ReadEmpty, ReadText}

\* plugin ids, their cache directories and the version directories in them
P_ID == <<"p", "@", "m">>
Q_ID == <<"q", "@", "m">>
PDIR == <<"p">>
QDIR == <<"q">>
V1 == <<"1">>
V2 == <<"2">>
V3 == <<"3">>
HIDDEN == <<".", "g">>

VersionNames == {V1, V2, HIDDEN}

CacheDirs == {<<PDIR>>, <<QDIR>>}

VersionPaths == {Append(c, v) : c \in CacheDirs, v \in VersionNames}

DiskPaths == CacheDirs \cup VersionPaths

\* the largest modification time of the model
MaxMtime == 2

File == [kind |-> "file", mtime |-> 1]
Dir(t) == [kind |-> "dir", mtime |-> t]

\* a settings file: missing, not json, or an object (with or without the
\* enabledPlugins key, a dict kept as <<id, enabled>> pairs)
MissingFile == [state |-> "missing", data |-> EmptyDict]
UnparseableFile == [state |-> "unparseable", data |-> EmptyDict]
SettingsFile(pairs) == [state |-> "ok", data |-> [enabledPlugins |-> pairs]]

\* a manifest's installation list and its entries
NotAList == [islist |-> FALSE, items |-> <<>>]
NotADict == [isdict |-> FALSE, haspath |-> FALSE, installPath |-> <<>>]
NoInstallPath == [isdict |-> TRUE, haspath |-> FALSE, installPath |-> <<>>]
Installed(path) == [isdict |-> TRUE, haspath |-> TRUE, installPath |-> path]
InstallList(items) == [islist |-> TRUE, items |-> items]
ManifestFile(pairs) == [state |-> "ok", data |-> [plugins |-> pairs]]

\* a cache: one node per cache directory and per version directory; a
\* version directory exists only inside an existing cache directory
CacheOf(pexists, pnodes, qexists, qnodes) ==
    [d \in DiskPaths |->
        IF d = <<PDIR>> THEN (IF pexists THEN Dir(1) ELSE Absent)
        ELSE IF d = <<QDIR>> THEN (IF qexists THEN Dir(1) ELSE Absent)
        ELSE IF Parent(d) = <<PDIR>> THEN (IF pexists THEN pnodes[Name(d)] ELSE Absent)
        ELSE (IF qexists THEN qnodes[Name(d)] ELSE Absent)]

NoVersions == [v \in VersionNames |-> Absent]

\* the command directories: the project's, the user's and one per version
\* directory, which exists only when the version directory does
CmdDirPaths == {project_cmd_dir, user_cmd_dir} \cup {Append(v, COMMANDS) : v \in VersionPaths}

CmdDirsOf(d, projdir, userdir, pdir, qdir) ==
    [c \in CmdDirPaths |->
        IF c = project_cmd_dir THEN projdir
        ELSE IF c = user_cmd_dir THEN userdir
        ELSE IF d[Parent(c)].kind # "dir" THEN DirAbsent
        ELSE IF Parent(Parent(c)) = <<PDIR>> THEN pdir
        ELSE qdir]

\* the state of find_command / main before the first step
LookupStart ==
    /\ pc = "start"
    /\ cmd_candidates = <<>>
    /\ result = None
    /\ enabled_plugins = <<>>
    /\ installed_paths = <<>>
    /\ plugin_idx = 0

\* the function-under-test variables, unused by the resolver
FnIdle ==
    /\ fn_pc = "idle"
    /\ fn_input = <<>>
    /\ fn_output = <<>>

\* the migration tool's variables, unused by the resolver
MigrateIdle ==
    /\ sources = {}
    /\ scope = "global"
    /\ target = <<>>
    /\ count = 0
    /\ repeated = FALSE
    /\ last_op = <<>>

\* the resolver's variables, unused by a function under test
LookupIdle ==
    /\ argv = <<>>
    /\ cmd_dirs = <<>>
    /\ file_read = ReadFails
    /\ settings = <<>>
    /\ manifest = MissingFile
    /\ disk = <<>>
    /\ iter_order = <<>>
    /\ pc = "idle"
    /\ cmd_candidates = <<>>
    /\ result = None
    /\ enabled_plugins = <<>>
    /\ installed_paths = <<>>
    /\ plugin_idx = 0

(***************************************************************************)
(* Specification SpecLookup: every content of the project and the user     *)
(* directory, both plugins installed, enabled in either order or not.      *)
(***************************************************************************)

\* the settings of SpecLookup: the two project files enable p and q in
\* either order, one of them, or none
LookupSettings ==
    { <<f1, f2, MissingFile, MissingFile>> :
        f1 \in {MissingFile, SettingsFile(<< <<P_ID, TRUE>> >>),
                SettingsFile(<< <<Q_ID, TRUE>>, <<P_ID, TRUE>> >>)},
        f2 \in {MissingFile, SettingsFile(<< <<Q_ID, TRUE>>, <<P_ID, FALSE>> >>)} }

BothInstalled ==
    ManifestFile(<< <<P_ID, InstallList(<<Installed(<<PDIR, V1>>)>>)>>,
                    <<Q_ID, InstallList(<<Installed(<<QDIR, V1>>)>>)>> >>)

\* the caches of SpecLookup: q's recorded version on disk; p's recorded
\* version on disk, or replaced by version 2, or p's cache gone
LookupCaches ==
    { CacheOf(TRUE, [NoVersions EXCEPT ![V1] = Dir(1)], TRUE, [NoVersions EXCEPT ![V1] = Dir(1)]),
      CacheOf(TRUE, [NoVersions EXCEPT ![V2] = Dir(2)], TRUE, [NoVersions EXCEPT ![V1] = Dir(1)]),
      CacheOf(FALSE, NoVersions, TRUE, [NoVersions EXCEPT ![V1] = Dir(1)]) }

InitLookup ==
    /\ argv \in Argvs
    /\ file_read \in (IF IsListMode THEN {ReadText} ELSE AllReads)
    /\ settings \in LookupSettings
    /\ manifest = BothInstalled
    /\ disk \in LookupCaches
    /\ iter_order = <<V1, V2, HIDDEN>>
    /\ \E projdir \in AllDirs, userdir \in AllDirs,
          pdir \in {DirAbsent, DirSlashFile, DirColonFile}, qdir \in FewDirs :
          cmd_dirs = CmdDirsOf(disk, projdir, userdir, pdir, qdir)
    /\ LookupStart
    /\ FnIdle
    /\ MigrateIdle

SpecLookup == InitLookup /\ [][NextLookup]_vars


\* the command name asked for and its candidates
Query == argv[1]
Candidates == normalize_command_name(Query)

\* the candidates that are regular files in a directory, in candidate order
Matches(dir) == SelectSeq(Candidates, LAMBDA c : IsRegularFile(dir, c))
HasMatch(dir) == Len(Matches(dir)) > 0

\* a plugin id is enabled when some readable settings file marks it true
IsEnabled(id) ==
    \E k \in 1..Len(settings) :
        /\ settings[k].state = "ok"
        /\ "enabledPlugins" \in DOMAIN settings[k].data
        /\ <<id, TRUE>> \in Range(settings[k].data.enabledPlugins)

\* the locations of the fixed search order: project, user, then the
\* commands directory of each enabled plugin that resolves, in enabled order
SearchOrder ==
    LET installed == get_installed_plugin_paths.value
        ids == SelectSeq(get_enabled_plugins.value, LAMBDA id : HasKey(installed, id))
    IN <<[dir |-> project_cmd_dir, source |-> T_project],
         [dir |-> user_cmd_dir, source |-> T_user]>>
       \o [i \in 1..Len(ids) |->
              [dir |-> Append(Lookup(installed, ids[i]), COMMANDS),
               source |-> PluginSource(ids[i])]]

\* the position in a search order of the first location holding a regular
\* file that matches a candidate; 0 when there is none
FirstHitIn(order) ==
    IF \E i \in 1..Len(order) : HasMatch(order[i].dir)
    THEN CHOOSE i \in 1..Len(order) :
             /\ HasMatch(order[i].dir)
             /\ \A j \in 1..(i - 1) : ~HasMatch(order[j].dir)
    ELSE 0

\* the directories of the first k locations of a search order
DirsUpTo(order, k) == [i \in 1..k |-> order[i].dir]

\* find_command has returned (not the list mode)
Returned == pc = "done" /\ ~IsListMode

\* C1 as stated: whenever the project directory holds a matching regular
\* file, the returned source is "project".
C1_ProjectMatchGivesProjectSource ==
    (Returned /\ HasMatch(project_cmd_dir)) =>
        ("source" \in DOMAIN result /\ result.source = T_project)

\* C1 (amended): the locations are probed in the order project, user,
\* enabled resolvable plugins; the search stops at the first location that
\* holds a matching regular file and the result is the one built for that
\* location: its source when the file was read, else the read-error result
\* without a source. When the project directory holds a match, only the
\* project location is searched and no other source is ever returned.
C1_FirstMatchWins ==
    Returned =>
        LET order == SearchOrder
            k == FirstHitIn(order)
        IN /\ k > 0 =>
                /\ result.locations_searched = DirsUpTo(order, k)
                /\ result.found \/ "error" \in DOMAIN result
                /\ result.found =>
                       /\ result.source = order[k].source
                       /\ result.path = JoinPath(order[k].dir, Matches(order[k].dir)[1])
                /\ ~result.found => "source" \notin DOMAIN result
           /\ k = 0 =>
                /\ result.locations_searched = DirsUpTo(order, Len(order))
                /\ ~result.found
           /\ HasMatch(project_cmd_dir) =>
                /\ result.locations_searched = <<project_cmd_dir>>
                /\ "source" \in DOMAIN result => result.source = T_project

\* project, user and both plugins (q enabled before p) each hold a match,
\* and the project's file was returned
C1_Witness ==
    /\ Returned
    /\ result.found
    /\ result.source = T_project
    /\ LET order == SearchOrder
       IN /\ Len(order) = 4
          /\ order[3].source = PluginSource(Q_ID)
          /\ \A i \in 1..4 : HasMatch(order[i].dir)

\* the text a command file's relative path is listed under
ListedName(rel, prefix) ==
    LET text == Join(rel, <<"/">>)
        stem == SubSeq(text, 1, Len(text) - Len(MD))
    IN ReplaceChar(IF Len(prefix) > 0 THEN prefix \o <<":">> \o stem ELSE stem, "/", ":")

\* the regular command files of a directory
CommandFiles(dir) == {rel \in Range(RelPaths) : EntryKind(dir, rel) = "file"}

\* the entries of a suggestion list that carry a source
WithSource(available, source) ==
    SelectSeq(available, LAMBDA e : e.source = source)

\* C5: when no location of the search order holds a match, the result has
\* found = false and an available_commands list holding every command file
\* of the project directory (source "project"), of the user directory
\* (source "user") and of every enabled resolvable plugin (source
\* "plugin:<full id>", name prefixed by the plugin name); no entry has any
\* other source, so a plugin that is not enabled or does not resolve
\* contributes nothing.
C5_NotFoundListsAllCommands ==
    Returned =>
        LET order == SearchOrder
            installed == get_installed_plugin_paths.value
        IN FirstHitIn(order) = 0 =>
            /\ result.found = FALSE
            /\ "available_commands" \in DOMAIN result
            /\ LET available == result.available_commands
               IN /\ \A i \in 1..Len(order) :
                         LET loc == order[i]
                             prefix == IF i <= 2 THEN <<>>
                                       ELSE SubSeq(loc.source, Len(T_plugin_colon) + 1,
                                                   Len(loc.source) - 2)
                         IN /\ \A rel \in CommandFiles(loc.dir) :
                                   [name |-> ListedName(rel, prefix), source |-> loc.source]
                                       \in Range(available)
                            /\ Len(WithSource(available, loc.source))
                                   >= Cardinality(CommandFiles(loc.dir))
                  /\ \A e \in Range(available) :
                         \E i \in 1..Len(order) : e.source = order[i].source
                  /\ \A id \in {P_ID, Q_ID} :
                         (~IsEnabled(id) \/ ~HasKey(installed, id))
                             => WithSource(available, PluginSource(id)) = <<>>

\* nothing matched; plugin p is enabled and resolves and its command file is
\* suggested with the full plugin id, while q, not enabled, contributes
\* nothing although its directory holds a command file
C5_Witness ==
    /\ Returned
    /\ "available_commands" \in DOMAIN result
    /\ IsEnabled(P_ID)
    /\ ~IsEnabled(Q_ID)
    /\ CommandFiles(<<QDIR, V1, COMMANDS>>) # {}
    /\ [name |-> <<"p", ":", "a", ":", "b">>, source |-> PluginSource(P_ID)]
           \in Range(result.available_commands)

\* C6: when the first location holding a match is found but reading the
\* file fails, find_command raises nothing and returns found = false with
\* an error message naming the file and the locations searched up to and
\* including that location.
C6_ReadFailureIsReported ==
    /\ (~IsListMode /\ ~file_read.ok) => pc # "raised"
    /\ (Returned /\ ~file_read.ok) =>
           LET order == SearchOrder
               k == FirstHitIn(order)
           IN k > 0 =>
               /\ result.found = FALSE
               /\ "error" \in DOMAIN result
               /\ result.error[2] = JoinPath(order[k].dir, Matches(order[k].dir)[1])
               /\ result.locations_searched = DirsUpTo(order, k)

\* the matching file sits in a plugin directory, after the project and the
\* user directory were searched, and could not be read
C6_Witness ==
    /\ Returned
    /\ ~file_read.ok
    /\ "error" \in DOMAIN result
    /\ Len(result.locations_searched) = 3

\* C7: every result find_command returns carries the found flag, the
\* search query and the list of locations searched.
C7_ResultCarriesDiagnostics ==
    Returned => {"found", "search_query", "locations_searched"} \subseteq DOMAIN result

\* C11: find_command returns found = true exactly when the first location
\* in search order with a matching regular file yields a successful read of
\* that file; a file that was read, an empty one included, is returned as
\* found with its content and parsed form and never as a read failure.
C11_FoundIffReadSucceeds ==
    Returned =>
        LET order == SearchOrder
            k == FirstHitIn(order)
        IN /\ result.found <=> (k > 0 /\ file_read.ok)
           /\ (k > 0 /\ file_read.ok) =>
                  /\ "error" \notin DOMAIN result
                  /\ "content" \in DOMAIN result
                  /\ result.content = file_read.text
                  /\ result.parsed = parse_command_content(file_read.text)

(***************************************************************************)
(* Specification SpecAbsent: every combination of the four settings files  *)
(* and the manifest being missing, unparseable or readable, with command   *)
(* directories and plugin caches present or absent.                        *)
(***************************************************************************)

AbsentSettings ==
    [1..4 -> {MissingFile, UnparseableFile,
              SettingsFile(<< <<P_ID, TRUE>> >>),
              SettingsFile(<< <<Q_ID, TRUE>>, <<P_ID, FALSE>> >>)}]

InitAbsent ==
    /\ argv \in Argvs
    /\ file_read = ReadText
    /\ settings \in AbsentSettings
    /\ manifest \in {MissingFile, UnparseableFile, BothInstalled}
    /\ disk \in LookupCaches
    /\ iter_order = <<V1, V2, HIDDEN>>
    /\ \E projdir \in FewDirs, userdir \in FewDirs :
          cmd_dirs = CmdDirsOf(disk, projdir, userdir, DirSlashFile, DirSlashFile)
    /\ LookupStart
    /\ FnIdle
    /\ MigrateIdle

SpecAbsent == InitAbsent /\ [][NextLookup]_vars

\* the ids some readable settings file enables
EnabledIds == {id \in {P_ID, Q_ID} : IsEnabled(id)}

\* the command directories below a plugin's cache directory
CmdDirsBelow(cache) == {c \in CmdDirPaths : Len(c) = 3 /\ c[1] = cache}

\* a plugin's recorded version directory and every sibling are absent
CacheGone(cache) == \A d \in VersionPaths : d[1] = cache => disk[d].kind = "absent"

VersionNodes == {Absent, File} \cup {Dir(t) : t \in 1..MaxMtime}

\* the contents of p's cache directory: the hidden directory, when there,
\* is the newest entry
PluginCacheContents ==
    {nodes \in [VersionNames -> VersionNodes] : nodes[HIDDEN] \in {Absent, Dir(MaxMtime)}}

PluginCaches ==
    {CacheOf(FALSE, NoVersions, TRUE, [NoVersions EXCEPT ![V1] = Dir(1)])}
    \cup {CacheOf(TRUE, nodes, TRUE, [NoVersions EXCEPT ![V1] = Dir(1)]) :
             nodes \in PluginCacheContents}

\* the installation lists the manifest may record for p
PluginInstallations ==
    {NotAList, InstallList(<<>>), InstallList(<<NotADict>>), InstallList(<<NoInstallPath>>),
     InstallList(<<Installed(<<PDIR, V1>>)>>), InstallList(<<Installed(<<PDIR, V2>>)>>),
     InstallList(<<Installed(<<PDIR, V3>>)>>),
     InstallList(<<Installed(<<PDIR, V1>>), Installed(<<PDIR, V2>>)>>)}

PluginManifests ==
    {MissingFile}
    \cup {ManifestFile(<< <<P_ID, inst>>,
                          <<Q_ID, InstallList(<<Installed(<<QDIR, V1>>)>>)>> >>) :
             inst \in PluginInstallations}

InitPlugins ==
    /\ argv \in Argvs
    /\ file_read = ReadText
    /\ settings \in {<<SettingsFile(<< <<P_ID, TRUE>> >>), MissingFile, MissingFile, MissingFile>>,
                     <<MissingFile, MissingFile, MissingFile,
                       SettingsFile(<< <<Q_ID, TRUE>>, <<P_ID, TRUE>> >>)>>}
    /\ manifest \in PluginManifests
    /\ disk \in PluginCaches
    /\ iter_order \in {<<V1, V2, HIDDEN>>, <<HIDDEN, V2, V1>>}
    /\ \E projdir \in FewDirs, userdir \in FewDirs :
          cmd_dirs = CmdDirsOf(disk, projdir, userdir, DirSlashFile, DirAbsent)
    /\ LookupStart
    /\ FnIdle
    /\ MigrateIdle

SpecPlugins == InitPlugins /\ [][NextLookup]_vars

\* the <<id, installations>> pairs of a readable manifest
ManifestEntries ==
    IF manifest.state = "ok" /\ "plugins" \in DOMAIN manifest.data
        THEN Range(manifest.data.plugins) ELSE {}

\* the manifest records an install path for the entry: its installation
\* list is a non-empty list whose first entry is an object with installPath
Records(inst) ==
    /\ inst.islist
    /\ Len(inst.items) > 0
    /\ inst.items[1].isdict
    /\ inst.items[1].haspath

\* the non-hidden directories beside a path, on disk
SiblingDirs(path) ==
    {d \in DOMAIN disk :
        /\ Len(d) = Len(path)
        /\ SubSeq(d, 1, Len(d) - 1) = SubSeq(path, 1, Len(path) - 1)
        /\ disk[d].kind = "dir"
        /\ d[Len(d)][1] # "."}

OnDisk(path) == path \in DOMAIN disk /\ disk[path].kind # "absent"

\* get_installed_plugin_paths has returned its mapping
PathsLoaded == pc = "plugin_loop" \/ (pc = "done" /\ IsListMode)

\* C3: every plugin id of the manifest is mapped to the install path of the
\* first entry of its installation list when that path is on disk; only
\* when it is not, to the most recently modified non-hidden sibling
\* directory; and to nothing when there is no such directory. Every mapped
\* path is on disk.
C3_InstallPathOrNewestSibling ==
    PathsLoaded =>
        /\ \A e \in ManifestEntries :
               LET id == e[1]
                   inst == e[2]
               IN IF ~Records(inst) THEN ~HasKey(installed_paths, id)
                  ELSE LET recorded == inst.items[1].installPath
                       IN IF OnDisk(recorded)
                              THEN /\ HasKey(installed_paths, id)
                                   /\ Lookup(installed_paths, id) = recorded
                          ELSE IF SiblingDirs(recorded) = {}
                              THEN ~HasKey(installed_paths, id)
                          ELSE /\ HasKey(installed_paths, id)
                               /\ Lookup(installed_paths, id) \in SiblingDirs(recorded)
                               /\ \A d \in SiblingDirs(recorded) :
                                      disk[d].mtime <= disk[Lookup(installed_paths, id)].mtime
        /\ \A i \in 1..Len(installed_paths) :
               /\ \E e \in ManifestEntries : e[1] = installed_paths[i][1]
               /\ OnDisk(installed_paths[i][2])

\* p's recorded version 3 is not on disk; its cache holds version 1, the
\* newer version 2 and a hidden directory, listed with version 1 before
\* version 2; p is mapped to version 2
C3_Witness ==
    /\ pc = "plugin_loop"
    /\ manifest.state = "ok"
    /\ Lookup(manifest.data.plugins, P_ID) = InstallList(<<Installed(<<PDIR, V3>>)>>)
    /\ disk[<<PDIR, V1>>] = Dir(1)
    /\ disk[<<PDIR, V2>>] = Dir(2)
    /\ disk[<<PDIR, HIDDEN>>].kind = "dir"
    /\ iter_order[1] = V1
    /\ Lookup(installed_paths, P_ID) = <<PDIR, V2>>

(***************************************************************************)
(* The migration tool (migrate_claude_integrated.py).                      *)
(***************************************************************************)

\* str.replace(old, new): every non-overlapping occurrence, left to right
RECURSIVE Replace(_, _, _)
Replace(s, old, new) ==
    IF Len(s) < Len(old) THEN s
    ELSE IF StartsWith(s, old)
        THEN new \o Replace(SubSeq(s, Len(old) + 1, Len(s)), old, new)
    ELSE <<s[1]>> \o Replace(Tail(s), old, new)

TOML == <<".", "t", "o", "m", "l">>
T_user_misc == <<"u", "s", "e", "r", "_", "m", "i", "s", "c">>
T_cache == <<"c", "a", "c", "h", "e">>
T_plugins == <<"p", "l", "u", "g", "i", "n", "s">>
F_x_md == <<"x", ".", "m", "d">>
F_cc_command_md == <<"c", "c", "-", "c", "o", "m", "m", "a", "n", "d", ".", "m", "d">>
F_x_toml == <<"x", ".", "t", "o", "m", "l">>
F_cc_command_toml == <<"c", "c", "-", "c", "o", "m", "m", "a", "n", "d", ".", "t", "o", "m", "l">>
F_notes_txt == <<"n", "o", "t", "e", "s", ".", "t", "x", "t">>

IMPORT_TAG == "# Tags: claude-code-import"

\* Protected files that should never be deleted by the migration cleanup
protected_files == {F_cc_command_toml}

\* the markdown sources below ~/.claude: commands/x.md, commands/cc-command.md,
\* commands/p/x.md, the plugin file plugins/cache/m/p/1/commands/x.md, and a
\* file that is no command (commands/notes.txt)
SRC_X == [root |-> "commands", dir |-> <<>>, file |-> F_x_md,
          readable |-> TRUE, path |-> "~/.claude/commands/x.md"]
SRC_X_UNREADABLE == [SRC_X EXCEPT !.readable = FALSE]
SRC_CC == [root |-> "commands", dir |-> <<>>, file |-> F_cc_command_md,
           readable |-> TRUE, path |-> "~/.claude/commands/cc-command.md"]
SRC_UPX == [root |-> "commands", dir |-> <<PDIR>>, file |-> F_x_md,
            readable |-> TRUE, path |-> "~/.claude/commands/p/x.md"]
SRC_PX == [root |-> "plugins", dir |-> <<<<"m">>, PDIR, V1, COMMANDS>>, file |-> F_x_md,
           readable |-> TRUE, path |-> "~/.claude/plugins/cache/m/p/1/commands/x.md"]
SRC_TXT == [root |-> "commands", dir |-> <<>>, file |-> F_notes_txt,
            readable |-> TRUE, path |-> "~/.claude/commands/notes.txt"]

\* the order os.walk visits the sources in
SourceOrder == <<SRC_X, SRC_X_UNREADABLE, SRC_CC, SRC_TXT, SRC_UPX, SRC_PX>>

SourceSets ==
    { {}, {SRC_X}, {SRC_X_UNREADABLE, SRC_PX}, {SRC_X, SRC_CC, SRC_TXT},
      {SRC_X, SRC_CC, SRC_PX}, {SRC_CC, SRC_UPX, SRC_PX} }

\* the files that can be under the target commands directory, as
\* <<category, file name>>
TargetPaths ==
    { <<T_user_misc, F_x_toml>>, <<T_user_misc, F_cc_command_toml>>,
      <<PDIR, F_x_toml>>, <<T_user_misc, F_notes_txt>> }

NoFile == [exists |-> FALSE, lines |-> <<>>, by |-> "nobody"]

\* a file written by hand, without and with the tag marker in its text
HandFile == [exists |-> TRUE, lines |-> <<[k |-> "text", v |-> "hand"]>>, by |-> "hand"]
HandFileWithTag ==
    [exists |-> TRUE,
     lines |-> <<[k |-> "text", v |-> "hand"], [k |-> "tag", v |-> IMPORT_TAG]>>,
     by |-> "hand"]

\* make_toml_content(src_content, meta, original_path, scope): the lines of
\* the generated file
make_toml_content(src, scope_) ==
    <<[k |-> "description", v |-> "Imported from Claude Code"],
      [k |-> "tag", v |-> IMPORT_TAG],
      [k |-> "source", v |-> src.path],
      [k |-> IF scope_ = "project" THEN "prompt_reference" ELSE "prompt_embedded",
       v |-> src.path]>>

\* IMPORT_TAG in f.read()
HasTag(file) == \E i \in 1..Len(file.lines) : file.lines[i].v = IMPORT_TAG

\* a cleanup that skips no protected file
removable_ignoring_protection(tgt, path) ==
    /\ tgt[path].exists
    /\ EndsWith(path[2], TOML)
    /\ HasTag(tgt[path])

\* the condition under which cleanup_phase removes a file
removable(tgt, path) ==
    /\ tgt[path].exists
    /\ EndsWith(path[2], TOML)
    /\ path[2] \notin protected_files
    /\ HasTag(tgt[path])

\* cleanup_phase(target_commands_dir): the files left and the count reported
cleanup_phase(tgt) ==
    [target |-> [path \in DOMAIN tgt |-> IF removable(tgt, path) THEN NoFile ELSE tgt[path]],
     count |-> Cardinality({path \in DOMAIN tgt : removable(tgt, path)})]

\* a migrate_file that overwrites whatever the strategy
migrate_file_overwriting(tgt, src, category, strategy) ==
    IF ~src.readable THEN tgt
    ELSE [tgt EXCEPT ![<<category, Replace(src.file, MD, TOML)>>] =
              [exists |-> TRUE, lines |-> make_toml_content(src, scope), by |-> "migrate"]]

\* migrate_file(src_path, category, name, target_commands_dir, strategy, scope):
\* the files under the target directory afterwards
migrate_file(tgt, src, category, strategy) ==
    IF ~src.readable THEN tgt
    ELSE LET target_name == Replace(src.file, MD, TOML)
             target_path == <<category, target_name>>
         IN IF tgt[target_path].exists /\ strategy \in {"ignore", "auto"} THEN tgt
            ELSE [tgt EXCEPT ![target_path] =
                     [exists |-> TRUE, lines |-> make_toml_content(src, scope),
                      by |-> "migrate"]]

\* main, lines 149-150: the category of a user command file
UserCategory(src) == IF Len(src.dir) = 0 THEN T_user_misc ELSE Join(src.dir, <<"/">>)

\* main, lines 159-164: the plugin name taken from the path of a commands
\* directory below the plugin cache
PluginName(src) ==
    LET parts == <<CLAUDE, T_plugins, T_cache>> \o src.dir
        cache_idx == FirstIndex(parts, T_cache)
    IN IF Len(parts) >= cache_idx + 2 THEN parts[cache_idx + 2]
       ELSE parts[Len(parts) - 1]

\* the files the two walks of main visit, in order
CommandsWalk ==
    SelectSeq(SourceOrder,
        LAMBDA src : src \in sources /\ src.root = "commands" /\ EndsWith(src.file, MD))
PluginsWalk ==
    SelectSeq(SourceOrder,
        LAMBDA src : /\ src \in sources
                     /\ src.root = "plugins"
                     /\ Name(src.dir) = COMMANDS
                     /\ EndsWith(src.file, MD))

\* the loops of main over the files of a walk
RECURSIVE MigrateCommands(_, _, _)
MigrateCommands(tgt, walk, strategy) ==
    IF Len(walk) = 0 THEN tgt
    ELSE MigrateCommands(migrate_file(tgt, walk[1], UserCategory(walk[1]), strategy),
                         Tail(walk), strategy)

RECURSIVE MigratePlugins(_, _, _)
MigratePlugins(tgt, walk, strategy) ==
    IF Len(walk) = 0 THEN tgt
    ELSE MigratePlugins(migrate_file(tgt, walk[1], PluginName(walk[1]), strategy),
                        Tail(walk), strategy)

\* an operation on the target directory: a run of the tool, or an edit
Op(strategy, what) == [strategy |-> strategy, what |-> what]

\* main with --strategy force, override, ignore or auto
Migrate ==
    \E strategy \in {"force", "override", "ignore", "auto"},
       what \in {"all", "commands", "plugins"} :
        LET cleaned == cleanup_phase(target)
            t0 == IF strategy = "force" THEN cleaned.target ELSE target
            t1 == IF what \in {"all", "commands"}
                      THEN MigrateCommands(t0, CommandsWalk, strategy) ELSE t0
            t2 == IF what \in {"all", "plugins"}
                      THEN MigratePlugins(t1, PluginsWalk, strategy) ELSE t1
        IN /\ target' = t2
           /\ count' = IF strategy = "force" THEN cleaned.count ELSE count
           /\ repeated' = (last_op = Op(strategy, what))
           /\ last_op' = Op(strategy, what)
           /\ UNCHANGED <<sources, scope>>
           /\ UNCHANGED <<fnVars, envVars, lookupVars>>

\* main with --strategy delete: clean up and exit
Delete ==
    \E what \in {"all"} :
        LET cleaned == cleanup_phase(target)
        IN /\ target' = cleaned.target
           /\ count' = cleaned.count
           /\ repeated' = (last_op = Op("delete", what))
           /\ last_op' = Op("delete", what)
           /\ UNCHANGED <<sources, scope>>
           /\ UNCHANGED <<fnVars, envVars, lookupVars>>

\* the files the user writes by hand
HandEdits ==
    { <<<<T_user_misc, F_x_toml>>, HandFile>>,
      <<<<T_user_misc, F_x_toml>>, HandFileWithTag>>,
      <<<<T_user_misc, F_notes_txt>>, HandFileWithTag>> }

\* the user writes a file of their own under the target directory
HandWrite ==
    \E edit \in HandEdits :
      LET path == edit[1]
          file == edit[2]
      IN
        /\ target[path] # file
        /\ target' = [target EXCEPT ![path] = file]
        /\ repeated' = FALSE
        /\ last_op' = Op("edit", "none")
        /\ UNCHANGED <<sources, scope, count>>
        /\ UNCHANGED <<fnVars, envVars, lookupVars>>

NextMigrate == Migrate \/ Delete \/ HandWrite

InitMigrate ==
    /\ sources \in SourceSets
    /\ scope \in {"global", "project"}
    /\ target = [path \in TargetPaths |-> NoFile]
    /\ count = 0
    /\ repeated = FALSE
    /\ last_op = Op("none", "none")
    /\ LookupIdle
    /\ FnIdle

SpecMigrate == InitMigrate /\ [][NextMigrate]_vars

\* the two strategies that keep an existing target
KeepingStrategies == {"auto", "ignore"}

\* C8: a run with strategy auto or ignore changes no file that exists
\* already, hand-written or generated, and when the operation just before it
\* was such a run of the same part of the sources, it changes nothing under
\* the target directory at all: no file is added and none is rewritten.
C8_AutoIgnoreIdempotent ==
    [][ /\ last_op'.strategy \in KeepingStrategies =>
               \A path \in TargetPaths :
                   target[path].exists => target'[path] = target[path]
        /\ ( /\ last_op.strategy \in KeepingStrategies
             /\ last_op'.strategy \in KeepingStrategies
             /\ last_op'.what = last_op.what ) => target' = target ]_vars

\* a second auto run in a row over sources that have x.md and a plugin's
\* x.md, with a hand-written x.toml and a generated p/x.toml in place
C8_Witness ==
    /\ repeated
    /\ last_op = Op("auto", "all")
    /\ SRC_X \in sources
    /\ SRC_PX \in sources
    /\ target[<<T_user_misc, F_x_toml>>] = HandFile
    /\ target[<<PDIR, F_x_toml>>].by = "migrate"
    /\ target[<<T_user_misc, F_cc_command_toml>>].by = "migrate"

\* C9 as stated: a delete run removes every file migrate_file wrote, leaves
\* every other file as it was, keeps cc-command.toml and adds no file.
C9_DeleteRemovesEveryGeneratedFile ==
    [][ last_op'.strategy = "delete" =>
            \A path \in TargetPaths :
                /\ target[path].by = "migrate" => ~target'[path].exists
                /\ target[path].by # "migrate" => target'[path] = target[path]
                /\ path[2] = F_cc_command_toml => target'[path] = target[path] ]_vars

\* C9, amended: a delete run removes exactly the .toml files that contain
\* the tag marker and are not named cc-command.toml, whoever wrote them, and
\* reports their number; every other file is left as it was and no file is
\* added.  Every file migrate_file wrote is among the removed ones unless it
\* is named cc-command.toml.
C9_DeleteRemovesTaggedUnprotected ==
    [][ last_op'.strategy = "delete" =>
            LET tagged == {path \in TargetPaths :
                              /\ target[path].exists
                              /\ \E i \in 1..Len(target[path].lines) :
                                     target[path].lines[i].v = IMPORT_TAG
                              /\ Len(path[2]) >= Len(TOML)
                              /\ SubSeq(path[2], Len(path[2]) - Len(TOML) + 1, Len(path[2])) = TOML
                              /\ path[2] # F_cc_command_toml}
            IN /\ \A path \in tagged : target'[path] = NoFile
               /\ \A path \in TargetPaths \ tagged : target'[path] = target[path]
               /\ count' = Cardinality(tagged)
               /\ \A path \in TargetPaths :
                      (target[path].by = "migrate" /\ path[2] # F_cc_command_toml)
                          => path \in tagged ]_vars

\* after a delete run that removed two files: the generated cc-command.toml
\* and the tagged notes.txt are still there, x.toml and p/x.toml are gone
C9_Witness ==
    /\ last_op = Op("delete", "all")
    /\ count = Cardinality({<<T_user_misc, F_x_toml>>, <<PDIR, F_x_toml>>})
    /\ target[<<T_user_misc, F_cc_command_toml>>].by = "migrate"
    /\ target[<<T_user_misc, F_notes_txt>>] = HandFileWithTag
    /\ ~target[<<T_user_misc, F_x_toml>>].exists
    /\ ~target[<<PDIR, F_x_toml>>].exists

(***************************************************************************)
(* Specification SpecNormalize: the normalizer applied to every command    *)
(* name of at most MaxNameLen characters over NameChars.                   *)
(***************************************************************************)

NameChars == {"a", ":", "/", ".", "m", "d"}

MaxNameLen == 4

Names == UNION {[1..n -> NameChars] : n \in 0..MaxNameLen}

InitNormalize ==
    /\ fn_pc = "call"
    /\ fn_input \in Names
    /\ fn_output = <<>>
    /\ LookupIdle
    /\ MigrateIdle

Normalize ==
    /\ fn_pc = "call"
    /\ fn_output' = normalize_command_name(fn_input)
    /\ fn_pc' = "normalized"
    /\ UNCHANGED fn_input
    /\ UNCHANGED <<envVars, lookupVars, migrateVars>>

SpecNormalize == InitNormalize /\ [][Normalize]_vars


\* the four forms the normalizer considers, each under its condition
NormalizerForms(name) ==
    (IF Contains(name, ":") THEN <<ReplaceChar(name, ":", "/") \o MD>> ELSE <<>>)
    \o (IF Contains(name, "/") THEN <<name \o MD>> ELSE <<>>)
    \o <<name \o MD>>
    \o (IF EndsWith(name, MD) THEN <<name>> ELSE <<>>)

\* C2: for every command name the normalizer returns the order-preserving
\* de-duplication of the four conditional forms: the same entries, each
\* once, in the order of their first occurrence; hence no duplicate, at
\* most 4 entries, every entry ending in ".md", and for a name holding ":"
\* the first entry is the name with ":" replaced by "/" plus ".md".
C2_NormalizeIsOrderedDedup ==
    fn_pc = "normalized" =>
        LET out == fn_output
            forms == NormalizerForms(fn_input)
        IN /\ \A i, j \in 1..Len(out) : i # j => out[i] # out[j]
           /\ Range(out) = Range(forms)
           /\ \A i, j \in 1..Len(out) :
                  i < j => FirstIndex(forms, out[i]) < FirstIndex(forms, out[j])
           /\ Len(out) <= 4
           /\ \A i \in 1..Len(out) : EndsWith(out[i], MD)
           /\ Contains(fn_input, ":") =>
                  out[1] = ReplaceChar(fn_input, ":", "/") \o MD

\* a name holding both ":" and "/" has been normalized: the colon form comes
\* first and the repeated direct form has been dropped as a duplicate
C2_Witness ==
    /\ fn_pc = "normalized"
    /\ Contains(fn_input, ":")
    /\ Contains(fn_input, "/")
    /\ Len(NormalizerForms(fn_input)) = 3
    /\ Len(fn_output) = 2

(***************************************************************************)
(* Specification SpecSkills: the skill extractor applied to every content  *)
(* made of at most MaxFragments fragments of ContentFragments.             *)
(***************************************************************************)

ContentFragments ==
    { <<"/">> \o T_dev, <<"/">> \o T_null, <<"/", "H", "o", "m", "e">>,
      <<"/", "a", ":", "b">>, <<"/", "a", "b">>, <<"c", "d">>, <<" ">> }

MaxFragments == 3

Contents ==
    {Join(fs, <<>>) : fs \in UNION {[1..n -> ContentFragments] : n \in 0..MaxFragments}}

InitSkills ==
    /\ fn_pc = "call"
    /\ fn_input \in Contents
    /\ fn_output = {}
    /\ LookupIdle
    /\ MigrateIdle

ExtractSkills ==
    /\ fn_pc = "call"
    /\ fn_output' = extract_skill_references(fn_input)
    /\ fn_pc' = "extracted"
    /\ UNCHANGED fn_input
    /\ UNCHANGED <<envVars, lookupVars, migrateVars>>

SpecSkills == InitSkills /\ [][ExtractSkills]_vars

\* C10: the extractor returns exactly the lower-cased matches that are not
\* in the stoplist and that contain a colon or are longer than 3
\* characters; in particular it never returns a stoplist token.
C10_SkillsExcludeStoplist ==
    fn_pc = "extracted" =>
        LET matches == Range(FindAll(Lower(fn_input)))
        IN /\ fn_output = {m \in matches :
                               /\ m \notin false_positives
                               /\ (Contains(m, ":") \/ Len(m) > 3)}
           /\ fn_output \cap false_positives = {}


====
